---- MODULE Spec2Model ----
(***************************************************************************)
(* Transmission line reflection and quarter-wave matching calculator       *)
(* (src/app.py): a Streamlit script that is re-executed from top to bottom *)
(* after every widget interaction.                                         *)
(*                                                                         *)
(* Numbers.  The script computes in IEEE doubles and complex doubles.      *)
(* Here a real is an extended rational [n, d] in lowest terms, with 1/0,   *)
(* -1/0 and 0/0 standing for +inf, -inf and NaN, so that a division by     *)
(* zero gives what numpy gives.  A square root is exact on perfect squares *)
(* and rounded down to a fixed number of digits otherwise.  A complex      *)
(* number is (re + j*im) * e^(j*2*pi*ph) with re, im rational and ph a     *)
(* rational number of turns in [0, 1/4), which is a unique form for the    *)
(* values the script produces: rational complex numbers rotated by the     *)
(* electrical length of a line.                                            *)
(*                                                                         *)
(* Units.  Frequencies are kept in MHz and the speed of light in m/us, so  *)
(* that every integer stays below 2^31; lengths are metres, impedances     *)
(* ohms, angles turns (1 turn = 2*pi rad).                                 *)
(***************************************************************************)
EXTENDS Integers, Sequences, FiniteSets, TLC

\* ------------------------------------------------------------ reals

IAbs(x) == IF x < 0 THEN -x ELSE x

IMax(x, y) == IF x > y THEN x ELSE y

Sgn(x) == IF x < 0 THEN -1 ELSE IF x = 0 THEN 0 ELSE 1

RECURSIVE GCD(_, _)
GCD(a, b) == IF b = 0 THEN a ELSE GCD(b, a % b)

\* n/d with d # 0, given g = gcd(|n|, |d|) and s the sign of d.
RatBy(n, d, g, s) == [n |-> s * (n \div g), d |-> s * (d \div g)]

\* n/d in lowest terms with d >= 0; d = 0 gives +inf, -inf or NaN.
Rat(n, d) ==
    IF d = 0 THEN [n |-> Sgn(n), d |-> 0]
    ELSE RatBy(n, d, GCD(IAbs(n), IAbs(d)), Sgn(d))

I(k) == [n |-> k, d |-> 1]

Inf == [n |-> 1, d |-> 0]

NaN == [n |-> 0, d |-> 0]

IsFinite(a) == a.d # 0

IsNaN(a) == a.d = 0 /\ a.n = 0

RNeg(a) == [n |-> -a.n, d |-> a.d]

\* Whether the product x*y is below 2^31.
Fits(x, y) == x = 0 \/ y = 0 \/ IAbs(x) <= 2147483647 \div IAbs(y)

\* Whether the sum x + y is below 2^31.
FitsSum(x, y) == IAbs(x) <= 2147483647 - IAbs(y)

\* a with numerator and denominator divided by k, rounded: to an integer when
\* the denominator is below k, to the inverse of one when the numerator is.
FitBy(a, k) ==
    IF k = 1 \/ a.n = 0 THEN a
    ELSE IF a.d < k THEN I((a.n + a.d \div 2) \div a.d)
    ELSE IF IAbs(a.n) < k THEN Rat(Sgn(a.n), (a.d + IAbs(a.n) \div 2) \div IAbs(a.n))
    ELSE Rat((a.n + k \div 2) \div k, (a.d + k \div 2) \div k)

\* A finite rational rounded so that numerator and denominator stay below 2^15:
\* the rounding of a result that has too many digits to keep, as a double's
\* rounding is. Exact results small enough are never rounded.
Fit(a) == FitBy(a, IMax(IAbs(a.n), a.d) \div 32767 + 1)

\* A coarse order of magnitude of a finite rational: its integer part, or minus
\* the integer part of its inverse.
Mag(a) ==
    IF a.n = 0 THEN -2147483647
    ELSE IF IAbs(a.n) >= a.d THEN IAbs(a.n) \div a.d
    ELSE -(a.d \div IAbs(a.n))

\* a + b from the rounded operands x and y; the larger operand alone when the
\* smaller one is below its rounding (absorption).
RAddRounded(a, b, x, y) ==
    IF /\ Fits(x.n, y.d) /\ Fits(y.n, x.d) /\ Fits(x.d, y.d)
       /\ FitsSum(x.n * y.d, y.n * x.d)
    THEN Rat(x.n * y.d + y.n * x.d, x.d * y.d)
    ELSE IF Mag(a) >= Mag(b) THEN x ELSE y

\* a + b over the common denominator ad * b.d, where ad = a.d / gcd(a.d, b.d)
\* and bd = b.d / gcd(a.d, b.d).
RAddOver(a, b, ad, bd) ==
    IF /\ Fits(a.n, bd) /\ Fits(b.n, ad) /\ Fits(ad, b.d)
       /\ FitsSum(a.n * bd, b.n * ad)
    THEN Rat(a.n * bd + b.n * ad, ad * b.d)
    ELSE RAddRounded(a, b, Fit(a), Fit(b))

\* a + b, exact when the result's numerator and denominator are below 2^31;
\* otherwise the sum of the rounded operands.
RAdd(a, b) ==
    IF a.d # 0 /\ b.d # 0 /\ a.n = 0 THEN b
    ELSE IF a.d # 0 /\ b.d # 0 /\ b.n = 0 THEN a
    ELSE IF a.d # 0 /\ b.d # 0
    THEN RAddOver(a, b, a.d \div GCD(a.d, b.d), b.d \div GCD(a.d, b.d))
    ELSE Rat(a.n * b.d + b.n * a.d, 0)

RSub(a, b) == RAdd(a, RNeg(b))

\* x * y for rounded operands; a large numerator is divided by the other
\* operand's denominator first.
RMulRounded(x, y) ==
    IF Fits(x.n, y.n) THEN Rat(x.n * y.n, x.d * y.d)
    ELSE IF Fits(x.n \div y.d, y.n) THEN Rat((x.n \div y.d) * y.n, x.d)
    ELSE Rat(x.n * (y.n \div x.d), y.d)

\* a * b from the cross-reduced parts an/ad and bn/bd.
RMulParts(a, b, an, bn, ad, bd) ==
    IF Fits(an, bn) /\ Fits(ad, bd)
    THEN [n |-> an * bn, d |-> ad * bd]
    ELSE RMulRounded(Fit(a), Fit(b))

\* a * b, given g1 = gcd(|a.n|, b.d) and g2 = gcd(|b.n|, a.d).
RMulBy(a, b, g1, g2) ==
    RMulParts(a, b, a.n \div g1, b.n \div g2, a.d \div g2, b.d \div g1)

\* a * b, exact when the result's numerator and denominator are below 2^31;
\* otherwise the product of the rounded operands.
RMul(a, b) ==
    IF a.d # 0 /\ b.d # 0
    THEN IF a.n = 0 \/ b.n = 0 THEN I(0)
         ELSE RMulBy(a, b, GCD(IAbs(a.n), b.d), GCD(IAbs(b.n), a.d))
    ELSE Rat(a.n * b.n, 0)

\* 1/0 is +inf, as for a double's positive zero.
RInv(a) ==
    IF a.n = 0 THEN (IF a.d = 0 THEN NaN ELSE Inf)
    ELSE IF a.n < 0 THEN [n |-> -a.d, d |-> -a.n]
    ELSE [n |-> a.d, d |-> a.n]

RDiv(a, b) == RMul(a, RInv(b))

\* x < y for rounded operands of the same sign.
RLtRounded(a, b, x, y) ==
    IF Fits(x.n, y.d) /\ Fits(y.n, x.d) THEN x.n * y.d < y.n * x.d
    ELSE IF a.n > 0 THEN Mag(a) < Mag(b) ELSE Mag(b) < Mag(a)

\* Comparisons: FALSE when either side is NaN, as for doubles.
RLt(a, b) ==
    /\ ~IsNaN(a) /\ ~IsNaN(b)
    /\ IF a.d # 0 /\ b.d # 0
       THEN IF Fits(a.n, b.d) /\ Fits(b.n, a.d) THEN a.n * b.d < b.n * a.d
            ELSE IF Sgn(a.n) # Sgn(b.n) THEN a.n < b.n
            ELSE RLtRounded(a, b, Fit(a), Fit(b))
       ELSE IF a.d = 0 /\ b.d = 0 THEN a.n < b.n
       ELSE IF a.d = 0 THEN a.n < 0
       ELSE b.n > 0

RLe(a, b) == ~IsNaN(a) /\ ~IsNaN(b) /\ (a = b \/ RLt(a, b))

RAbs(a) == [n |-> IAbs(a.n), d |-> a.d]

\* The fractional part of a finite rational, in [0, 1).
Frac(a) == Rat(a.n % a.d, a.d)

\* The integer part (floor) of a finite rational.
Floor(a) == a.n \div a.d

\* The integer square root of m in lo..hi, by bisection.
RECURSIVE ISqrtIn(_, _, _)
ISqrtIn(lo, hi, m) ==
    IF lo >= hi THEN lo
    ELSE IF ((lo + hi + 1) \div 2) * ((lo + hi + 1) \div 2) <= m
         THEN ISqrtIn((lo + hi + 1) \div 2, hi, m)
         ELSE ISqrtIn(lo, (lo + hi + 1) \div 2 - 1, m)

\* The integer square root of m >= 0, rounded down.
ISqrt(m) == ISqrtIn(0, IF m < 46340 THEN m ELSE 46340, m)

\* The scale (a power of ten, at most SqrtDigits digits) to which the square
\* root of a non-square integer m is rounded: the rounding is relative, as a
\* double's is.
RECURSIVE SqrtScaleIn(_, _)
SqrtScaleIn(m, k) ==
    IF k = 0 \/ m > (2147483647 \div 100) THEN 1
    ELSE 10 * SqrtScaleIn(m * 100, k - 1)

SqrtDigits == 3

\* sqrt(m) rounded down to the scale s.
SqrtRounded(m, s) == Rat(ISqrt(m * s * s), s)

\* sqrt(m), given r the integer square root of m.
SqrtIntBy(m, r) ==
    IF r * r = m THEN I(r) ELSE SqrtRounded(m, SqrtScaleIn(m, SqrtDigits))

\* sqrt of an integer m >= 0: exact when m is a perfect square.
SqrtInt(m) == SqrtIntBy(m, ISqrt(m))

\* np.sqrt of a real: NaN for a negative or NaN argument, inf for inf.
Sqrt(a) ==
    IF a.d = 0 THEN (IF a.n > 0 THEN Inf ELSE NaN)
    ELSE IF a.n < 0 THEN NaN
    ELSE RDiv(SqrtInt(a.n), SqrtInt(a.d))

\* ---------------------------------------------------------- complex

\* (re + j*im) * e^(j*2*pi*t) for t in [0, 1), with q its number of whole
\* quarter turns: these are taken into re and im.
Turned(re, im, t, q) ==
    CASE q = 0 -> [re |-> re, im |-> im, ph |-> t]
      [] q = 1 -> [re |-> RNeg(im), im |-> re, ph |-> RSub(t, Rat(1, 4))]
      [] q = 2 -> [re |-> RNeg(re), im |-> RNeg(im), ph |-> RSub(t, Rat(2, 4))]
      [] OTHER -> [re |-> im, im |-> RNeg(re), ph |-> RSub(t, Rat(3, 4))]

\* (re + j*im) * e^(j*2*pi*ph) in its unique form: ph in [0, 1/4), and 0 for zero.
Canon(re, im, ph) ==
    IF ~IsFinite(re) \/ ~IsFinite(im) \/ ~IsFinite(ph)
    THEN [re |-> NaN, im |-> NaN, ph |-> I(0)]
    ELSE IF re.n = 0 /\ im.n = 0 THEN [re |-> I(0), im |-> I(0), ph |-> I(0)]
    ELSE IF ph.n = 0 THEN [re |-> re, im |-> im, ph |-> ph]
    ELSE Turned(re, im, Frac(ph), Floor(RMul(I(4), Frac(ph))))

Cx(re, im) == Canon(re, im, I(0))

CZero == Cx(I(0), I(0))

COne == Cx(I(1), I(0))

CNaN == [re |-> NaN, im |-> NaN, ph |-> I(0)]

CIsZero(z) == z = CZero

CIsNaN(z) == IsNaN(z.re) \/ IsNaN(z.im)

CNeg(z) == Canon(RNeg(z.re), RNeg(z.im), z.ph)

\* A sum of two values with different irrational phases has no such form; the
\* script never forms one (see Connect21 and Connect22).
CAdd(a, b) ==
    IF CIsNaN(a) \/ CIsNaN(b) THEN CNaN
    ELSE IF CIsZero(a) THEN b
    ELSE IF CIsZero(b) THEN a
    ELSE IF a.ph = b.ph THEN Canon(RAdd(a.re, b.re), RAdd(a.im, b.im), a.ph)
    ELSE CNaN

CSub(a, b) == CAdd(a, CNeg(b))

CMul(a, b) ==
    IF CIsNaN(a) \/ CIsNaN(b) THEN CNaN
    ELSE IF a.im.n = 0 THEN Canon(RMul(a.re, b.re), RMul(a.re, b.im), RAdd(a.ph, b.ph))
    ELSE IF b.im.n = 0 THEN Canon(RMul(a.re, b.re), RMul(a.im, b.re), RAdd(a.ph, b.ph))
    ELSE Canon(RSub(RMul(a.re, b.re), RMul(a.im, b.im)),
               RAdd(RMul(a.re, b.im), RMul(a.im, b.re)),
               RAdd(a.ph, b.ph))

\* Smith's method for |b.im| <= |b.re|: r = b.im/b.re, den = b.re + b.im*r.
CDivByRe(a, b, r, den) ==
    Canon(RDiv(RAdd(a.re, RMul(a.im, r)), den),
          RDiv(RSub(a.im, RMul(a.re, r)), den),
          RSub(a.ph, b.ph))

\* Smith's method for |b.im| > |b.re|: r = b.re/b.im, den = b.im + b.re*r.
CDivByIm(a, b, r, den) ==
    Canon(RDiv(RAdd(RMul(a.re, r), a.im), den),
          RDiv(RSub(RMul(a.im, r), a.re), den),
          RSub(a.ph, b.ph))

\* a / b as numpy divides complex doubles (Smith's method: by the ratio of the
\* divisor's smaller component to its larger one, which for a real divisor is
\* a division of each component); a zero divisor gives NaN components (numpy:
\* inf or nan with a warning).
CDiv(a, b) ==
    IF CIsNaN(a) \/ CIsNaN(b) \/ CIsZero(b) THEN CNaN
    ELSE IF b.im.n = 0
    THEN Canon(RDiv(a.re, b.re), RDiv(a.im, b.re), RSub(a.ph, b.ph))
    ELSE IF RLe(RAbs(b.im), RAbs(b.re))
    THEN CDivByRe(a, b, RDiv(b.im, b.re),
                  RAdd(b.re, RMul(b.im, RDiv(b.im, b.re))))
    ELSE CDivByIm(a, b, RDiv(b.re, b.im),
                  RAdd(b.im, RMul(b.re, RDiv(b.re, b.im))))

\* Whether x and y can be brought to the common denominator
\* x.d * y.d / g, g = gcd(x.d, y.d), below 2^31.
CommensurableBy(x, y, g) ==
    Fits(x.n, y.d \div g) /\ Fits(y.n, x.d \div g) /\ Fits(x.d \div g, y.d)

Commensurable(x, y) == CommensurableBy(x, y, GCD(x.d, y.d))

\* sqrt(a^2 + b^2)/den with a and b scaled down by k first (as hypot does), so
\* that their squares stay below 2^30.
HypotScaled(a, b, den, k) ==
    RDiv(RMul(I(k), SqrtInt((a \div k) * (a \div k) + (b \div k) * (b \div k))),
         I(den))

\* sqrt(a^2 + b^2)/den for integers a, b >= 0: exact when a or b is 0.
HypotParts(a, b, den) ==
    IF b = 0 THEN Rat(a, den)
    ELSE IF a = 0 THEN Rat(b, den)
    ELSE HypotScaled(a, b, den, IMax(a, b) \div 32767 + 1)

\* sqrt(x^2 + y^2) for commensurable x and y, over their common denominator;
\* g = gcd(x.d, y.d).
HypotBy(x, y, g) ==
    HypotParts(IAbs(x.n * (y.d \div g)), IAbs(y.n * (x.d \div g)),
               (x.d \div g) * y.d)

Hypot(x, y) == HypotBy(x, y, GCD(x.d, y.d))

\* abs() of a complex number: the unit factor e^(j*2*pi*ph) has modulus 1.
CAbs(z) ==
    IF CIsNaN(z) THEN NaN
    ELSE IF Commensurable(z.re, z.im) THEN Hypot(z.re, z.im)
    ELSE IF Commensurable(Fit(z.re), Fit(z.im)) THEN Hypot(Fit(z.re), Fit(z.im))
    ELSE IF Mag(z.re) >= Mag(z.im) THEN RAbs(Fit(z.re))
    ELSE RAbs(Fit(z.im))

\* np.exp of a real x <= 0, needed only at x = 0 (a lossless line), where it is
\* exact; elsewhere the first terms of the series.
ExpReal(x) ==
    IF x.n = 0 THEN I(1)
    ELSE RAdd(I(1), RAdd(x, RDiv(RMul(x, x), I(2))))

\* np.exp(-theta) for theta = a + j*2*pi*t (a nepers, t turns).
CExpNeg(a, t) == Canon(ExpReal(RNeg(a)), I(0), RNeg(t))

\* ------------------------------------------------- the script's constants

\* 3e8 m/s (line 22), in m/us.
C0 == 300

\* The 1e9 of line 23 and the GHz unit of line 37, in MHz.
GHz == 1000

npoints == 501

\* The widgets' ranges and defaults (lines 11-31).
FcMin == Rat(1, 10)
FcMax == I(100)
FcDefault == Rat(24, 10)
Z0Min == I(1)
Z0Max == I(500)
Z0Default == I(50)
ErMin == I(1)
ErMax == I(20)
ErDefault == I(1)
RLMinZero == I(0)
RLMin == Rat(1, 10)
RLMax == I(1000)
RLDefault == I(75)
XLMin == I(-500)
XLMax == I(500)
XLDefault == I(50)
MetersMin == Rat(1, 10000)
MetersMax == I(10)
FractionMin == Rat(1, 100)
FractionMax == I(10)
FractionDefault == Rat(1, 4)

Meters == "Length in meters"
Fraction == "Fraction of lambda"
Choices == {Meters, Fraction}

\* A number_input without min_value and max_value: whatever is typed is taken.
NumberInputUnchecked(min, max, cur, v) == v

\* st.number_input: the value the script gets. The front end commits a typed
\* value v only when min_value <= v <= max_value; otherwise the widget keeps the
\* value cur it had.
NumberInput(min, max, cur, v) ==
    IF RLe(min, v) /\ RLe(v, max) THEN v ELSE cur

\* ------------------------------------------------- the script's computations

\* A numpy array of n elements e(0), ..., e(n-1), kept as a sequence: the
\* element of index i is at position i + 1.
Array(n, e(_)) == SubSeq([k \in 1..n |-> e(k - 1)], 1, n)

\* a[i], for i in 0..len(a)-1.
At(a, i) == a[i + 1]

\* The indices of an array.
Indices(a) == 0..(Len(a) - 1)

\* Line 22: vp = 3e8 / np.sqrt(er).
PhaseVelocity(er) == RDiv(I(C0), Sqrt(er))

\* Line 23: lambda_c = vp / (fc * 1e9).
Wavelength(v, fc) == RDiv(v, RMul(fc, I(GHz)))

\* np.linspace(start, stop, n, endpoint=False): the step is (stop-start)/n and
\* stop is not a sample.
LinSpaceOpen(start, stop, n) ==
    Array(n, LAMBDA i : RAdd(start, RMul(I(i), RDiv(RSub(stop, start), I(n)))))

\* np.linspace(start, stop, n): start + i*step with step = (stop-start)/(n-1),
\* the last sample set to stop.
LinSpace(start, stop, n) ==
    Array(n, LAMBDA i :
        IF i = n - 1 /\ n > 1 THEN stop
        ELSE RAdd(start, RMul(I(i), RDiv(RSub(stop, start), I(n - 1)))))

\* Lines 37-38: rf.Frequency(start=fc-1, stop=fc+1, npoints=501, unit='GHz').f
Frequency(fc, n) ==
    LinSpace(RMul(RSub(fc, I(1)), I(GHz)), RMul(RAdd(fc, I(1)), I(GHz)), n)

\* Line 39: beta = 2*pi*f/vp, here in turns per metre (f/vp).
Beta(fi, v) == RDiv(fi, v)

\* Line 40: gamma = 1j*beta: attenuation a = 0 (lossless), phase constant b.
PropagationConstant(b) == [a |-> I(0), b |-> b]

\* ZL with its parts exchanged: XL + 1j*RL.
LoadImpedanceSwapped(RL, XL) == Cx(XL, RL)

\* Line 43: ZL = RL + 1j*XL.
LoadImpedance(RL, XL) == Cx(RL, XL)

\* Line 47: s11 = (ZL - Z0)/(ZL + Z0).
LoadReflection(ZL, Z0) ==
    CDiv(CSub(ZL, Cx(Z0, I(0))), CAdd(ZL, Cx(Z0, I(0))))

\* Line 49: rf.Network(s=s, frequency=freq, z0=Z0): a one-port with its
\* reference impedance.
Load(s11, z0) == [s11 |-> s11, z0 |-> z0]

\* A line that halves the wave's amplitude each way: a lossy line.
LineLossy(g, z0, d) ==
    [s11 |-> CZero,
     s12 |-> CMul(Cx(Rat(1, 2), I(0)), CExpNeg(RMul(g.a, d), RMul(g.b, d))),
     s21 |-> CMul(Cx(Rat(1, 2), I(0)), CExpNeg(RMul(g.a, d), RMul(g.b, d))),
     s22 |-> CZero, z0 |-> z0]

\* media.line(d, unit='m') of rf.DefinedGammaZ0(freq, gamma, z0): at one
\* frequency, a two-port with s11 = s22 = 0 and s21 = s12 = exp(-gamma*d),
\* referenced to the medium's own z0 at both ports.
Line(g, z0, d) ==
    [s11 |-> CZero,
     s12 |-> CExpNeg(RMul(g.a, d), RMul(g.b, d)),
     s21 |-> CExpNeg(RMul(g.a, d), RMul(g.b, d)),
     s22 |-> CZero, z0 |-> z0]

\* The two-port of a step to reference impedance z2 whose reflection
\* coefficient is g.
Mismatch(g, z2) ==
    [s11 |-> g, s12 |-> CSub(COne, g), s21 |-> CAdd(COne, g),
     s22 |-> CNeg(g), z0 |-> z2]

\* skrf's impedance_mismatch(z1, z2): the two-port of a step from reference
\* impedance z1 to z2. (skrf scales s21 and s12 by sqrt(z1/z2) and its inverse,
\* which cancel in the product s12*s21, the only way they reach s11.)
ImpedanceMismatch(z1, z2) ==
    Mismatch(Cx(RDiv(RSub(z2, z1), RAdd(z2, z1)), I(0)), z2)

\* A's port 1 joined to B's port 0, den = 1 - A.s22 * B.s11.
Connect22By(A, B, den) ==
    [s11 |-> CAdd(A.s11, CDiv(CMul(CMul(A.s12, B.s11), A.s21), den)),
     s12 |-> CDiv(CMul(A.s12, B.s12), den),
     s21 |-> CDiv(CMul(B.s21, A.s21), den),
     s22 |-> CAdd(B.s22, CDiv(CMul(CMul(B.s21, A.s22), B.s12), den)),
     z0  |-> A.z0]

\* skrf's connect_s of a two-port's port 1 to a two-port's port 0.
Connect22(A, B) == Connect22By(A, B, CSub(COne, CMul(A.s22, B.s11)))

\* A's port 1 joined to the one-port B, den = 1 - A.s22 * B.s11.
Connect21By(A, B, den) ==
    [s11 |-> CAdd(A.s11, CDiv(CMul(CMul(A.s12, B.s11), A.s21), den)),
     z0  |-> A.z0]

\* skrf's connect_s of a two-port's port 1 to a one-port.
Connect21(A, B) == Connect21By(A, B, CSub(COne, CMul(A.s22, B.s11)))

\* Lines 52 and 81: line ** load. Network.__pow__ is skrf's connect: where the
\* joined ports' reference impedances differ it first connects an impedance
\* mismatch; the result keeps the line's port 0 and its reference impedance.
Cascade(A, B) ==
    IF A.z0 = B.z0 THEN Connect21(A, B)
    ELSE Connect21(Connect22(A, ImpedanceMismatch(A.z0, B.z0)), B)

\* Lines 56 and 85: (1 + abs(Gamma)) / (1 - abs(Gamma)).
VSWR(G) == RDiv(RAdd(I(1), CAbs(G)), RSub(I(1), CAbs(G)))

\* The floating-point warnings numpy raises for that division, read off its
\* result v: "divide" for x/0 with x # 0 (v is infinite: 1 + abs(Gamma) is
\* finite), "invalid" for 0/0 or a NaN operand (v is NaN).
VSWRWarnings(v) ==
    IF IsNaN(v) THEN {"invalid"}
    ELSE IF ~IsFinite(v) THEN {"divide"}
    ELSE {}

\* No transformer: a section of the line's own impedance Z0.
TransformerImpedanceOfLine(Z0, ZL) == Z0

\* Line 59: Zt = np.sqrt(Z0 * abs(ZL)).
TransformerImpedance(Z0, ZL) == Sqrt(RMul(Z0, CAbs(ZL)))

\* Line 60: lambda4_length = lambda_c / 4.
QuarterWave(lam) == RDiv(lam, I(4))

\* Lines 29-32: the line length in metres, from the length widget shown; lam is
\* lambda_c.
LineLength(p, lam) ==
    IF p.choice = Meters
    THEN (IF p.len.user THEN p.len.v ELSE QuarterWave(lam))
    ELSE RMul(IF p.len.user THEN p.len.v ELSE FractionDefault, lam)

\* Line 127: center_idx = len(f) // 2.
CenterIdx(n) == n \div 2

\* The "{x:.4f}" of lines 132-137: x rounded to 4 decimals (half up here);
\* inf and nan print as such.  The fractional part is scaled down first when
\* its denominator is too large to multiply by 10000, and a value above
\* 200000 is rounded to an integer.
Fmt4Parts(s, q, r, d, k) ==
    IF q > 200000
    THEN I(s * (IF r >= d - r THEN q + 1 ELSE q))
    ELSE Rat(s * (q * 10000 + ((r \div k) * 10000 + (d \div k) \div 2) \div (d \div k)),
             10000)

Fmt4(x) ==
    IF ~IsFinite(x) THEN x
    ELSE Fmt4Parts(Sgn(x.n), IAbs(x.n) \div x.d, IAbs(x.n) % x.d, x.d,
                   x.d \div 200000 + 1)

\* ------------------------------------------------------------- state

VARIABLES
    w,      \* the sidebar widgets' values: fc, Z0, er, RL, XL, choice, len
    req,    \* the value the user last typed or picked, until the script reads it
    pc,     \* the script's position: the section about to run, or "done"
    sv,     \* the script's scalar variables; Undef until the run assigns them
    f, beta, Gamma_before, VSWR_before, Gamma_after, VSWR_after,
            \* the script's arrays; Undef until the run assigns them
    warn    \* the floating-point warnings numpy raised in this run

arrays == <<f, beta, Gamma_before, VSWR_before, Gamma_after, VSWR_after>>

vars == <<w, req, pc, sv, arrays, warn>>

Undef == <<>>

NoReq == [widget |-> "none", v |-> I(0)]

\* A fresh run's namespace: Streamlit executes the script anew on every rerun.
Fresh ==
    [vp |-> Undef, lambda_c |-> Undef, length |-> Undef,
     ZL |-> Undef, s11 |-> Undef, Zt |-> Undef, lambda4_length |-> Undef,
     center_idx |-> Undef, summary |-> Undef]

\* The length widget shown (lines 28-31) holds its default until the user sets
\* it: lambda_c/4 metres, or 0.25 of a wavelength.
DefaultLen == [user |-> FALSE, v |-> I(0)]

Init ==
    /\ w = [fc |-> FcDefault, Z0 |-> Z0Default, er |-> ErDefault,
            RL |-> RLDefault, XL |-> XLDefault,
            choice |-> Meters, len |-> DefaultLen]
    /\ req = NoReq
    /\ pc = "inputs"
    /\ sv = Fresh
    /\ f = Undef /\ beta = Undef
    /\ Gamma_before = Undef /\ VSWR_before = Undef
    /\ Gamma_after = Undef /\ VSWR_after = Undef
    /\ warn = {}

\* ------------------------------------------------- the user's interactions

\* A rerun that does not restart a run in progress: the run goes on from where
\* it is, in its namespace, with the widgets' new values.
RerunInPlace(w2, widget, v) ==
    IF pc = "done"
    THEN /\ w' = w2
         /\ req' = [widget |-> widget, v |-> v]
         /\ pc' = "inputs"
         /\ sv' = Fresh
         /\ f' = Undef /\ beta' = Undef
         /\ Gamma_before' = Undef /\ VSWR_before' = Undef
         /\ Gamma_after' = Undef /\ VSWR_after' = Undef
         /\ warn' = {}
    ELSE /\ w' = w2
         /\ req' = [widget |-> widget, v |-> v]
         /\ UNCHANGED <<pc, sv, arrays, warn>>

\* Any interaction reruns the script from its first line in a fresh namespace,
\* whatever the previous run had reached, with the widgets' values: a value
\* typed out of a widget's range leaves the widget's value as it was.
Rerun(w2, widget, v) ==
    /\ w' = w2
    /\ req' = [widget |-> widget, v |-> v]
    /\ pc' = "inputs"
    /\ sv' = Fresh
    /\ f' = Undef /\ beta' = Undef
    /\ Gamma_before' = Undef /\ VSWR_before' = Undef
    /\ Gamma_after' = Undef /\ VSWR_after' = Undef
    /\ warn' = {}

\* The metres widget's default is lambda_c/4 (line 29): it is a new widget, back
\* at its default, whenever that default changes.
ResetMeters(w2) ==
    IF w2.choice = Meters /\ (w2.fc # w.fc \/ w2.er # w.er)
    THEN [w2 EXCEPT !.len = DefaultLen] ELSE w2

\* Line 11.
SetFc(S) ==
    \E v \in S :
        Rerun(ResetMeters([w EXCEPT !.fc = NumberInput(FcMin, FcMax, w.fc, v)]), "fc", v)

\* Line 12.
SetZ0(S) ==
    \E v \in S :
        Rerun([w EXCEPT !.Z0 = NumberInput(Z0Min, Z0Max, w.Z0, v)], "Z0", v)

\* Line 15.
SetEr(S) ==
    \E v \in S :
        Rerun(ResetMeters([w EXCEPT !.er = NumberInput(ErMin, ErMax, w.er, v)]), "er", v)

\* Line 18.
SetRL(S) ==
    \E v \in S :
        Rerun([w EXCEPT !.RL = NumberInput(RLMin, RLMax, w.RL, v)], "RL", v)

\* Line 19.
SetXL(S) ==
    \E v \in S :
        Rerun([w EXCEPT !.XL = NumberInput(XLMin, XLMax, w.XL, v)], "XL", v)

\* Line 26: the other length widget is shown, at its default.
SetChoice ==
    \E c \in Choices :
        Rerun(IF c = w.choice THEN w
              ELSE [w EXCEPT !.choice = c, !.len = DefaultLen], "choice", I(0))

\* The range of the length widget shown.
LengthMin(p) == IF p.choice = Meters THEN MetersMin ELSE FractionMin

LengthMax(p) == IF p.choice = Meters THEN MetersMax ELSE FractionMax

\* No length: what an entry that is not committed is replaced with.
LengthUnset == RNeg(I(1))

\* Lines 29 and 31: the length widget shown. An entry out of range leaves the
\* widget as it was.
SetLength(S) ==
    \E v \in S :
        Rerun(IF NumberInput(LengthMin(w), LengthMax(w), LengthUnset, v) = v
              THEN [w EXCEPT !.len = [user |-> TRUE, v |-> v]]
              ELSE w,
              "length", v)

\* ------------------------------------------------- the script's sections

\* Lines 10-34: the widgets' values, the phase velocity, the wavelength and the
\* line length.
ReadInputs ==
    /\ pc = "inputs"
    /\ sv' = [sv EXCEPT
                !.vp = PhaseVelocity(w.er),
                !.lambda_c = Wavelength(PhaseVelocity(w.er), w.fc),
                !.length = LineLength(w, Wavelength(PhaseVelocity(w.er), w.fc))]
    /\ req' = NoReq
    /\ pc' = "sweep"
    /\ UNCHANGED <<w, arrays, warn>>

\* Lines 36-40. gamma = 1j*beta is kept as beta: see GammaAt.
DefineFrequencyRange ==
    /\ pc = "sweep"
    /\ f' = Frequency(w.fc, npoints)
    /\ beta' = Array(Len(f'), LAMBDA i : Beta(At(f', i), sv.vp))
    /\ pc' = "before"
    /\ UNCHANGED <<w, req, sv, Gamma_before, VSWR_before, Gamma_after, VSWR_after, warn>>

\* Line 40: gamma[i].
GammaAt(i) == PropagationConstant(At(beta, i))

\* Lines 42-56.
NetworkBefore ==
    /\ pc = "before"
    /\ sv' = [sv EXCEPT !.ZL = LoadImpedance(w.RL, w.XL),
                        !.s11 = LoadReflection(LoadImpedance(w.RL, w.XL), w.Z0)]
    /\ Gamma_before' = Array(Len(f), LAMBDA i :
            Cascade(Line(GammaAt(i), w.Z0, sv.length), Load(sv'.s11, w.Z0)).s11)
    /\ VSWR_before' = Array(Len(f), LAMBDA i : VSWR(At(Gamma_before', i)))
    /\ warn' = warn \cup UNION {VSWRWarnings(At(VSWR_before', i)) : i \in Indices(f)}
    /\ pc' = "design"
    /\ UNCHANGED <<w, req, f, beta, Gamma_after, VSWR_after>>

\* Lines 58-60.
DesignTransformer ==
    /\ pc = "design"
    /\ sv' = [sv EXCEPT !.Zt = TransformerImpedance(w.Z0, sv.ZL),
                        !.lambda4_length = QuarterWave(sv.lambda_c)]
    /\ pc' = "after"
    /\ UNCHANGED <<w, req, arrays, warn>>

\* Lines 79-85.
NetworkAfter ==
    /\ pc = "after"
    /\ Gamma_after' = Array(Len(f), LAMBDA i :
            Cascade(Line(GammaAt(i), sv.Zt, sv.lambda4_length), Load(sv.s11, w.Z0)).s11)
    /\ VSWR_after' = Array(Len(f), LAMBDA i : VSWR(At(Gamma_after', i)))
    /\ warn' = warn \cup UNION {VSWRWarnings(At(VSWR_after', i)) : i \in Indices(f)}
    /\ pc' = "summary"
    /\ UNCHANGED <<w, req, sv, f, beta, Gamma_before, VSWR_before>>

\* Lines 132-137: the four values written.
SummaryAt(c) ==
    [Gamma_before |-> Fmt4(CAbs(At(Gamma_before, c))),
     VSWR_before  |-> Fmt4(At(VSWR_before, c)),
     Gamma_after  |-> Fmt4(CAbs(At(Gamma_after, c))),
     VSWR_after   |-> Fmt4(At(VSWR_after, c))]

\* Lines 126-137.
Summary ==
    /\ pc = "summary"
    /\ sv' = [sv EXCEPT
                !.center_idx = CenterIdx(Len(f)),
                !.summary = SummaryAt(CenterIdx(Len(f)))]
    /\ pc' = "done"
    /\ UNCHANGED <<w, req, arrays, warn>>

\* ------------------------------------------------- what the user may type

FcInputs == {FcMin, FcDefault, I(0), I(101)}
Z0Inputs == {Z0Min, Z0Default, I(0)}
ErInputs == {ErDefault, ErMax, Rat(1, 2)}
RLInputs == {RLMin, I(50), RLDefault, I(0)}
XLInputs == {XLMin, I(0), XLDefault, I(501)}
LengthInputs == {I(10), I(11)}

Next ==
    \/ SetFc(FcInputs)
    \/ SetZ0(Z0Inputs)
    \/ SetEr(ErInputs)
    \/ SetRL(RLInputs)
    \/ SetXL(XLInputs)
    \/ SetChoice
    \/ SetLength(LengthInputs)
    \/ ReadInputs
    \/ DefineFrequencyRange
    \/ NetworkBefore
    \/ DesignTransformer
    \/ NetworkAfter
    \/ Summary

Spec == Init /\ [][Next]_vars

\* ------------------- lines 55-56 and 84-85 on any reflection coefficients

\* Reflection coefficients of passive loads: a grid over the unit disk, its
\* boundary abs(Gamma) = 1 (a short, an open, a reactive load) included.
GammaGridSteps == 5

GammaGrid ==
    {Cx(Rat(a, GammaGridSteps), Rat(b, GammaGridSteps)) :
        <<a, b>> \in {<<a, b>> \in (-GammaGridSteps..GammaGridSteps)
                                   \X (-GammaGridSteps..GammaGridSteps) :
                        a * a + b * b <= GammaGridSteps * GammaGridSteps}}

InitVSWR ==
    /\ w = [fc |-> FcDefault, Z0 |-> Z0Default, er |-> ErDefault,
            RL |-> RLDefault, XL |-> XLDefault,
            choice |-> Meters, len |-> DefaultLen]
    /\ req = NoReq
    /\ pc = "vswr"
    /\ sv = Fresh
    /\ f = Undef /\ beta = Undef
    /\ \E G \in GammaGrid : Gamma_before = <<G>> /\ Gamma_after = <<G>>
    /\ VSWR_before = Undef /\ VSWR_after = Undef
    /\ warn = {}

\* Line 56.
ComputeVSWRBefore ==
    /\ pc = "vswr"
    /\ VSWR_before = Undef
    /\ VSWR_before' = Array(Len(Gamma_before), LAMBDA i : VSWR(At(Gamma_before, i)))
    /\ warn' = warn \cup UNION {VSWRWarnings(At(VSWR_before', i)) : i \in Indices(Gamma_before)}
    /\ UNCHANGED <<w, req, pc, sv, f, beta, Gamma_before, Gamma_after, VSWR_after>>

\* Line 85.
ComputeVSWRAfter ==
    /\ pc = "vswr"
    /\ VSWR_after = Undef
    /\ VSWR_after' = Array(Len(Gamma_after), LAMBDA i : VSWR(At(Gamma_after, i)))
    /\ warn' = warn \cup UNION {VSWRWarnings(At(VSWR_after', i)) : i \in Indices(Gamma_after)}
    /\ UNCHANGED <<w, req, pc, sv, f, beta, Gamma_before, Gamma_after, VSWR_before>>

NextVSWR ==
    \/ ComputeVSWRBefore
    \/ ComputeVSWRAfter

SpecVSWR == InitVSWR /\ [][NextVSWR]_vars

\* ------------------- reruns over a smaller set of typed values

NextRerun ==
    \/ SetFc({FcMin, FcDefault})
    \/ SetZ0({Z0Default, I(0)})
    \/ SetEr({ErDefault, ErMax})
    \/ SetRL({I(50), RLDefault})
    \/ SetXL({I(0), XLDefault})
    \/ SetChoice
    \/ SetLength({MetersMax})
    \/ ReadInputs
    \/ DefineFrequencyRange
    \/ NetworkBefore
    \/ DesignTransformer
    \/ NetworkAfter
    \/ Summary

SpecRerun == Init /\ [][NextRerun]_vars

\* ------------------------------------------------------------ properties

\* The sections that have run.
InputsRan == pc \in {"sweep", "before", "design", "after", "summary", "done"}

SweepRan == pc \in {"before", "design", "after", "summary", "done"}

BeforeRan == pc \in {"design", "after", "summary", "done"}

DesignRan == pc \in {"after", "summary", "done"}

AfterRan == pc \in {"summary", "done"}

\* C1: for a purely real load (XL = 0), the after-matching run gives
\* Gamma_after = 0 exactly and VSWR_after = 1.0 at the centre frequency fc, in
\* the arrays and in the summary shown.
C1_AfterMatchedAtFc ==
    (pc = "done" /\ w.XL = I(0)) =>
        /\ CIsZero(At(Gamma_after, sv.center_idx))
        /\ At(VSWR_after, sv.center_idx) = I(1)
        /\ sv.summary.Gamma_after = I(0)
        /\ sv.summary.VSWR_after = I(1)

\* C2: for a purely real load with RL # Z0, abs(Gamma_after) at fc is strictly
\* smaller than abs(Gamma_before) at fc, whatever the length of the line before
\* matching.
C2_AfterBelowBefore ==
    (AfterRan /\ w.XL = I(0) /\ w.RL # w.Z0) =>
        RLt(CAbs(At(Gamma_after, CenterIdx(Len(f)))),
            CAbs(At(Gamma_before, CenterIdx(Len(f)))))

\* A run for a real load RL # Z0 with a line length the user chose has finished.
C2_Witness ==
    /\ pc = "done" /\ w.XL = I(0) /\ w.RL = RLMin /\ w.Z0 = Z0Default
    /\ w.choice = Fraction /\ w.len.user
    /\ ~CIsZero(At(Gamma_after, sv.center_idx))

\* C3: before matching the lossless line only rotates the load's reflection
\* coefficient: at every sample Gamma_before = Gamma_L * e^(-2*gamma*length), so
\* abs(Gamma_before) = abs((ZL - Z0)/(ZL + Z0)) and VSWR_before is flat; for
\* Z0 = 50, RL = 75, XL = 0 they are 0.2 and 1.5 at fc, at any length.
C3_LineOnlyRotates ==
    BeforeRan =>
        /\ CAbs(At(Gamma_before, 0)) =
              CAbs(CDiv(CSub(Cx(w.RL, w.XL), Cx(w.Z0, I(0))),
                        CAdd(Cx(w.RL, w.XL), Cx(w.Z0, I(0)))))
        /\ \A i \in Indices(f) :
              /\ At(Gamma_before, i) =
                    CMul(sv.s11,
                         CExpNeg(RMul(I(2), RMul(GammaAt(i).a, sv.length)),
                                 RMul(I(2), RMul(GammaAt(i).b, sv.length))))
              /\ CAbs(At(Gamma_before, i)) = CAbs(At(Gamma_before, 0))
              /\ At(VSWR_before, i) = At(VSWR_before, 0)
        /\ (w.Z0 = I(50) /\ w.RL = I(75) /\ w.XL = I(0)) =>
              /\ CAbs(At(Gamma_before, CenterIdx(Len(f)))) = Rat(2, 10)
              /\ At(VSWR_before, CenterIdx(Len(f))) = Rat(15, 10)

\* A run for Z0 = 50, RL = 75, XL = 0 with a line of 10 m has finished, and the
\* line has turned the phase at the centre frequency.
C3_Witness ==
    /\ pc = "done" /\ w.Z0 = I(50) /\ w.RL = I(75) /\ w.XL = I(0)
    /\ w.choice = Meters /\ w.len.user /\ w.len.v = MetersMax
    /\ At(Gamma_before, sv.center_idx) # sv.s11

\* C4: a matched load (RL = Z0, XL = 0) has Gamma_L = 0, and before matching
\* Gamma = 0 and VSWR = 1 at every sample, whatever the line length, in metres
\* or as a fraction of the wavelength.
C4_MatchedLoad ==
    (BeforeRan /\ w.RL = w.Z0 /\ w.XL = I(0)) =>
        /\ CIsZero(sv.s11)
        /\ \A i \in Indices(f) :
              CIsZero(At(Gamma_before, i)) /\ At(VSWR_before, i) = I(1)

\* A run for a matched load with a length given as a fraction of the
\* wavelength has finished.
C4_Witness ==
    /\ pc = "done" /\ w.RL = w.Z0 /\ w.XL = I(0)
    /\ w.choice = Fraction /\ w.len.user /\ Len(VSWR_before) = npoints

C6_InputsInRange ==
    /\ RLe(FcMin, w.fc) /\ RLe(w.fc, FcMax) /\ RLt(I(0), w.fc)
    /\ RLe(Z0Min, w.Z0) /\ RLe(w.Z0, Z0Max) /\ RLt(I(0), w.Z0)
    /\ RLe(ErMin, w.er) /\ RLe(w.er, ErMax) /\ RLe(I(1), w.er)
    /\ RLe(RLMin, w.RL) /\ RLe(w.RL, RLMax) /\ RLt(I(0), w.RL)
    /\ RLe(XLMin, w.XL) /\ RLe(w.XL, XLMax)

\* The user has typed RL = 0 and the script is about to run.
C6_Witness ==
    /\ pc = "inputs" /\ req.widget = "RL" /\ req.v = I(0)
    /\ w.RL # req.v

\* C7: the sweep has 501 samples, strictly increasing from fc - 1 GHz to
\* fc + 1 GHz; the sample of index len(f)//2 is fc and no other is; beta, Gamma
\* and VSWR have the sweep's length; the summary shows the values at that index.
C7_SweepAndCentre ==
    /\ SweepRan =>
          /\ Len(f) = 501
          /\ At(f, 0) = RMul(RSub(w.fc, I(1)), I(GHz))
          /\ At(f, Len(f) - 1) = RMul(RAdd(w.fc, I(1)), I(GHz))
          /\ \A i \in 0..(Len(f) - 2) : RLt(At(f, i), At(f, i + 1))
          /\ \A i \in Indices(f) :
                (At(f, i) = RMul(w.fc, I(GHz))) <=> (i = Len(f) \div 2)
          /\ Len(beta) = Len(f)
    /\ BeforeRan => Len(Gamma_before) = Len(f) /\ Len(VSWR_before) = Len(f)
    /\ AfterRan => Len(Gamma_after) = Len(f) /\ Len(VSWR_after) = Len(f)
    /\ pc = "done" =>
          /\ sv.center_idx = Len(f) \div 2
          /\ sv.summary.Gamma_before = Fmt4(CAbs(At(Gamma_before, Len(f) \div 2)))
          /\ sv.summary.VSWR_before = Fmt4(At(VSWR_before, Len(f) \div 2))
          /\ sv.summary.Gamma_after = Fmt4(CAbs(At(Gamma_after, Len(f) \div 2)))
          /\ sv.summary.VSWR_after = Fmt4(At(VSWR_after, Len(f) \div 2))

\* A run at the lowest centre frequency has shown its summary.
C7_Witness ==
    /\ pc = "done" /\ w.fc = FcMin
    /\ At(f, sv.center_idx) = RMul(FcMin, I(GHz))

\* C8: every run is a full, independent one: whatever runs and changes came
\* before, what a run has computed so far (sweep, Gamma_before, VSWR_before,
\* Zt, lambda/4, Gamma_after, VSWR_after, the centre snapshots, the warnings)
\* is what the current widgets' values alone determine.
C8_FunctionOfParameters ==
    /\ InputsRan =>
          /\ sv.vp = PhaseVelocity(w.er)
          /\ sv.lambda_c = Wavelength(sv.vp, w.fc)
          /\ sv.length = LineLength(w, sv.lambda_c)
    /\ SweepRan =>
          /\ f = Frequency(w.fc, npoints)
          /\ Len(beta) = Len(f)
          /\ \A i \in Indices(f) : At(beta, i) = Beta(At(f, i), sv.vp)
    /\ BeforeRan =>
          /\ sv.ZL = LoadImpedance(w.RL, w.XL)
          /\ sv.s11 = LoadReflection(sv.ZL, w.Z0)
          /\ Len(Gamma_before) = Len(f) /\ Len(VSWR_before) = Len(f)
          /\ \A i \in Indices(f) :
                /\ At(Gamma_before, i) =
                      Cascade(Line(GammaAt(i), w.Z0, sv.length),
                              Load(sv.s11, w.Z0)).s11
                /\ At(VSWR_before, i) = VSWR(At(Gamma_before, i))
    /\ DesignRan =>
          /\ sv.Zt = TransformerImpedance(w.Z0, sv.ZL)
          /\ sv.lambda4_length = QuarterWave(sv.lambda_c)
    /\ AfterRan =>
          /\ Len(Gamma_after) = Len(f) /\ Len(VSWR_after) = Len(f)
          /\ \A i \in Indices(f) :
                /\ At(Gamma_after, i) =
                      Cascade(Line(GammaAt(i), sv.Zt, sv.lambda4_length),
                              Load(sv.s11, w.Z0)).s11
                /\ At(VSWR_after, i) = VSWR(At(Gamma_after, i))
          /\ warn = UNION {VSWRWarnings(At(VSWR_before, i)) \cup
                           VSWRWarnings(At(VSWR_after, i)) : i \in Indices(f)}
    /\ pc = "done" =>
          /\ sv.center_idx = CenterIdx(Len(f))
          /\ sv.summary = SummaryAt(sv.center_idx)

\* A run has finished after the user changed the centre frequency, the
\* permittivity, the load and the line length from their defaults.
C8_Witness ==
    /\ pc = "done"
    /\ w.fc # FcDefault /\ w.er # ErDefault
    /\ w.RL # RLDefault /\ w.XL # XLDefault /\ w.len.user
    /\ sv.summary # Undef

\* C9: for every combination the widgets accept, ZL + Z0 is not zero and
\* abs(Gamma_L) < 1, so 1 - abs(Gamma) > 0 and VSWR_before is finite and >= 1 at
\* every sample.
C9_LoadReflectionBelowOne ==
    BeforeRan =>
        /\ ~CIsZero(CAdd(sv.ZL, Cx(w.Z0, I(0))))
        /\ sv.ZL # CNeg(Cx(w.Z0, I(0)))
        /\ RLt(CAbs(sv.s11), I(1))
        /\ \A i \in Indices(f) :
              /\ RLt(I(0), RSub(I(1), CAbs(At(Gamma_before, i))))
              /\ IsFinite(At(VSWR_before, i))
              /\ RLe(I(1), At(VSWR_before, i))

\* A run at the widgets' extremes (the smallest Z0 and RL, the most negative XL)
\* has computed the response before matching.
C9_Witness ==
    /\ pc = "done" /\ w.Z0 = Z0Min /\ w.RL = RLMin /\ w.XL = XLMin
    /\ RLt(Rat(9, 10), CAbs(sv.s11))

\* C10: for every fc the widget accepts, every sample of the sweep is a
\* strictly positive frequency and beta is strictly positive at every sample.
C10_SweepPositive ==
    SweepRan =>
        \A i \in Indices(f) : RLt(I(0), At(f, i)) /\ RLt(I(0), At(beta, i))

====
